---- MODULE Spec2Model ----
(***************************************************************************)
(* A model of year_collator.py (iFEED data consolidation, level 1).        *)
(*                                                                         *)
(* Four specifications share one set of variables:                         *)
(*   Spec      a whole run: singleprocess_rcp / multiprocess_rcp, the      *)
(*             fullyr invocations and catdata, over a small filesystem;    *)
(*   SpecPath  outcube's choice of output path (nextPath);                 *)
(*   SpecChunk the chunking of the years in multiprocess_rcp;              *)
(*   SpecGrid  readascii's placement of table rows on the grid.            *)
(*                                                                         *)
(* File paths are tuples: <<"yr", y, 0>> is "<outfil>_<y>.nc",             *)
(* <<"yr", y, k>> (k >= 1) is "<outfil>_<y>_<k>.nc", <<"recdim", y, k>> is *)
(* the same name with "_recdim" before ".nc" and <<"final", 0, 0>> is      *)
(* "<outfil>.nc".                                                          *)
(***************************************************************************)
EXTENDS Integers, Sequences, FiniteSets, TLC

VARIABLES
    yrs,        \* the list of years getyrs returned, in os.walk order
    procs,      \* NBR_PROCESSES
    fs,         \* the set of paths that exist in the output directory
    fresh,      \* the existing paths whose content was written by this run
    fs0,        \* history: fs when the run started
    pc,         \* where the parent process is
    chunks,     \* list_of_chunks (a sequence of sequences of indices into yrs)
    cidx,       \* the chunk pool.map is working on
    tstate,     \* per fullyr invocation: "pending", "done", "failed"
    wrote,      \* per fullyr invocation: the path outcube saved to (or NoPath)
    ret,        \* per fullyr invocation: the path fullyr returned (or NoPath)
    yearlist,   \* yearlist of multiprocess_rcp / singleprocess_rcp
    catarg,     \* history: the list catdata was called with
    ncrcatIn,   \* history: the input list given to nco.ncrcat
    catres,     \* "none", "ncks_failed", "ncrcat_failed", "ok"
    pathRet,    \* SpecPath: the path the last outcube call saved to
    pathFrom,   \* SpecPath: history, fs before that call
    kN,         \* SpecChunk: number of years
    kDone,      \* SpecChunk: indices already handed to pool.map, in order
    outOfOrder, \* history: a fullyr call finished before an earlier one of its chunk
    gTable,     \* SpecGrid: the rows of the raw table (the data frame)
    gOut        \* SpecGrid: what readascii returned (or raised)

vars == <<yrs, procs, fs, fresh, fs0, pc, chunks, cidx, tstate, wrote, ret,
          yearlist, catarg, ncrcatIn, catres, pathRet, pathFrom, kN, kDone,
          outOfOrder, gTable, gOut>>

\* the variables only SpecPath, SpecChunk and SpecGrid use
sideVars == <<pathRet, pathFrom, kN, kDone, gTable, gOut>>

NoPath == <<"none", 0, 0>>

(***************************************************************************)
(* Paths                                                                   *)
(***************************************************************************)
\* outnm = "{}_{}.nc".format(outfil, yr)
outnm(y) == <<"yr", y, 0>>

\* path_pattern % i  with  path_pattern = fname[:-3] + '_%s.nc'
Pattern(fname, i) == <<fname[1], fname[2], i>>

\* "{}_recdim.nc".format(p[:-3])
RecdimName(p) == <<"recdim", p[2], p[3]>>

\* newfile = outfil + '.nc'
newfile == <<"final", 0, 0>>

(***************************************************************************)
(* nextPath: exponential search, then binary search, over os.path.exists   *)
(***************************************************************************)
RECURSIVE ExpSearch(_, _, _)
ExpSearch(files, fname, i) ==
    IF Pattern(fname, i) \in files THEN ExpSearch(files, fname, i * 2) ELSE i

RECURSIVE BinSearch(_, _, _, _)
BinSearch(files, fname, a, b) ==
    IF a + 1 < b
    THEN LET c == (a + b) \div 2
         IN  IF Pattern(fname, c) \in files
             THEN BinSearch(files, fname, c, b)
             ELSE BinSearch(files, fname, a, c)
    ELSE b

\* A search that stops at the exponential probe (no narrowing).
nextPathNoBinary(files, fname) == Pattern(fname, ExpSearch(files, fname, 1))

\* A binary search whose two branches are exchanged.
nextPathSwapped(files, fname) ==
    LET RECURSIVE Narrow(_, _)
        Narrow(a, b) ==
            IF a + 1 < b
            THEN LET c == (a + b) \div 2
                 IN  IF Pattern(fname, c) \in files
                     THEN Narrow(a, c) ELSE Narrow(c, b)
            ELSE b
        i == ExpSearch(files, fname, 1)
    IN  Pattern(fname, Narrow(i \div 2, i))

nextPath(files, fname) ==
    LET i == ExpSearch(files, fname, 1)
    IN  Pattern(fname, BinSearch(files, fname, i \div 2, i))

\* the path outcube saves to
outfile(files, fname) ==
    IF fname \in files THEN nextPath(files, fname) ELSE fname

(***************************************************************************)
(* SpecPath: one output directory holding any set of files                 *)
(* name, name_1 .. name_MaxSuffix, in which outcube saves one cube.        *)
(***************************************************************************)
MaxSuffix == 5
PathName == <<"yr", 1980, 0>>

PathFiles == {Pattern(PathName, k) : k \in 0..MaxSuffix}

InitPath ==
    /\ fs \in SUBSET PathFiles
    /\ fs0 = fs
    /\ fresh = {}
    /\ pathRet = NoPath
    /\ pathFrom = {}
    /\ pc = "path"
    /\ yrs = <<>> /\ procs = 1 /\ chunks = <<>> /\ cidx = 0
    /\ tstate = <<>> /\ wrote = <<>> /\ ret = <<>> /\ yearlist = <<>>
    /\ catarg = <<>> /\ ncrcatIn = <<>> /\ catres = "none"
    /\ kN = 0 /\ kDone = <<>> /\ outOfOrder = FALSE
    /\ gTable = <<>> /\ gOut = [kind |-> "none"]

\* outcube(cube, fname): choose the path, save the cube there
Outcube ==
    /\ pc = "path"
    /\ pathRet = NoPath
    /\ LET p == outfile(fs, PathName)
       IN  /\ pathRet' = p
           /\ pathFrom' = fs
           /\ fs' = fs \cup {p}
           /\ fresh' = fresh \cup {p}
    /\ UNCHANGED <<yrs, procs, fs0, pc, chunks, cidx, tstate, wrote, ret,
                   yearlist, catarg, ncrcatIn, catres, kN, kDone, outOfOrder,
                   gTable, gOut>>

NextPath == Outcube

SpecPath == InitPath /\ [][NextPath]_vars

\* the suffixes k >= 1 for which name_k exists in a set of files
SuffixesIn(files) == {k \in 1..MaxSuffix : Pattern(PathName, k) \in files}

\* the smallest positive suffix whose path is not in files
SmallestFree(files) ==
    CHOOSE k \in 1..(MaxSuffix + 1) :
        /\ Pattern(PathName, k) \notin files
        /\ \A j \in 1..(k - 1) : Pattern(PathName, j) \in files

\* C3: if exactly name, name_1 .. name_{N-1} exist (N >= 1), outcube saves to
\* name_N; if name is free, it saves to name.
C3_Allocation ==
    pathRet # NoPath =>
        /\ (PathName \notin pathFrom => pathRet = PathName)
        /\ \A N \in 1..(MaxSuffix + 1) :
              pathFrom = {Pattern(PathName, k) : k \in 0..(N - 1)}
                  => pathRet = Pattern(PathName, N)

C3_Witness ==
    /\ pathFrom = {Pattern(PathName, k) : k \in 0..2}
    /\ pathRet = Pattern(PathName, 3)

\* C9 as stated: whatever suffixed files exist (gaps allowed), nextPath
\* returns the path with the smallest positive suffix that does not exist.
C9_SmallestFree ==
    (pathRet # NoPath /\ PathName \in pathFrom) =>
        pathRet = Pattern(PathName, SmallestFree(pathFrom))

\* C9 as amended: whatever suffixed files exist, nextPath returns a free path
\* name_k with k >= 1 such that k = 1 or name_{k-1} exists; k is the smallest
\* free suffix when the existing suffixes are a contiguous run 1..m.
C9_FreeBoundary ==
    (pathRet # NoPath /\ PathName \in pathFrom) =>
        /\ pathRet \notin pathFrom
        /\ pathRet[1] = "yr" /\ pathRet[2] = PathName[2] /\ pathRet[3] >= 1
        /\ (pathRet[3] = 1 \/ Pattern(PathName, pathRet[3] - 1) \in pathFrom)
        /\ (\E m \in 0..MaxSuffix : SuffixesIn(pathFrom) = 1..m)
              => pathRet = Pattern(PathName, SmallestFree(pathFrom))

\* a gap in the numbering: name_3 is free, name_5 is returned
C9_Witness ==
    /\ pathFrom = {Pattern(PathName, k) : k \in {0, 1, 2, 4}}
    /\ pathRet = Pattern(PathName, 5)

(***************************************************************************)
(* multiprocess_rcp: the chunks of years handed to pool.map                *)
(***************************************************************************)
Min(a, b) == IF a < b THEN a ELSE b

\* itterable = [[yr, args] for yr in yrs], by index into yrs
Itterable(n) == [i \in 1..n |-> i]

\* locproc = min(len(yrs), procs)
locproc(n, p) == Min(n, p)

\* np.array_split(ary, Nsections): Nsections chunks, the first
\* len % Nsections of them one element longer than the others
ArraySplit(s, Nsections) ==
    LET Neach  == Len(s) \div Nsections
        extras == Len(s) % Nsections
        start(j) == (j - 1) * Neach + Min(j - 1, extras)
    IN  [j \in 1..Nsections |-> SubSeq(s, start(j) + 1, start(j + 1))]

\* list_of_chunks = np.array_split(itterable, len(itterable)/locproc)
list_of_chunks(n, p) == ArraySplit(Itterable(n), n \div locproc(n, p))

RECURSIVE Flatten(_)
Flatten(ss) == IF ss = <<>> THEN <<>> ELSE Head(ss) \o Flatten(Tail(ss))

(***************************************************************************)
(* SpecChunk: any number of years up to MaxN, any worker bound 2..MaxP     *)
(***************************************************************************)
MaxN == 9
MaxP == 5

InitChunk ==
    /\ kN \in 1..MaxN
    /\ procs \in 2..MaxP
    /\ kDone = <<>>
    /\ chunks = <<>>
    /\ cidx = 0
    /\ pc = "split"
    /\ yrs = <<>> /\ fs = {} /\ fs0 = {} /\ fresh = {}
    /\ tstate = <<>> /\ wrote = <<>> /\ ret = <<>> /\ yearlist = <<>>
    /\ catarg = <<>> /\ ncrcatIn = <<>> /\ catres = "none"
    /\ pathRet = NoPath /\ pathFrom = {} /\ outOfOrder = FALSE
    /\ gTable = <<>> /\ gOut = [kind |-> "none"]

\* lines 470-476: locproc and list_of_chunks are computed
Split ==
    /\ pc = "split"
    /\ chunks' = list_of_chunks(kN, procs)
    /\ pc' = "pool"
    /\ UNCHANGED <<yrs, procs, fs, fresh, fs0, cidx, tstate, wrote, ret,
                   yearlist, catarg, ncrcatIn, catres, pathRet, pathFrom,
                   kN, kDone, outOfOrder, gTable, gOut>>

\* lines 482-483: one chunk goes through pool.map
MapChunk ==
    /\ pc = "pool"
    /\ cidx < Len(chunks)
    /\ kDone' = kDone \o chunks[cidx + 1]
    /\ cidx' = cidx + 1
    /\ UNCHANGED <<yrs, procs, fs, fresh, fs0, pc, chunks, tstate, wrote, ret,
                   yearlist, catarg, ncrcatIn, catres, pathRet, pathFrom,
                   kN, outOfOrder, gTable, gOut>>

NextChunk == Split \/ MapChunk

SpecChunk == InitChunk /\ [][NextChunk]_vars

\* C8 as stated: the chunks are a partition of the years in their order, no
\* chunk holds more than min(N, P) years, and only the last may hold fewer.
C8_ChunkBound ==
    pc = "pool" =>
        /\ Flatten(chunks) = Itterable(kN)
        /\ \A j \in 1..Len(chunks) : Len(chunks[j]) <= Min(kN, procs)
        /\ \A j \in 1..(Len(chunks) - 1) : Len(chunks[j]) = Min(kN, procs)

(***************************************************************************)
(* readascii: a raw table becomes one masked grid per variable column.     *)
(* A row is <<V1, .., V_LastCol>>; V1 is the year, V2 the latitude and V3  *)
(* the longitude, both counted in half degrees (so that every value is     *)
(* exactly representable and the mesh step 0.5 is the integer 1), V4 and   *)
(* above are the variables.                                                *)
(***************************************************************************)
\* the tables of the model have the columns V1..V_LastCol (49 in the data)
LastCol == 5
\* grid.fill(-99)
FillValue == -99

VarCols == {c \in 1..LastCol : c > 3}

SetMax(S) == CHOOSE x \in S : \A y \in S : y <= x
SetMin(S) == CHOOSE x \in S : \A y \in S : x <= y

ColumnOf(df, c) == {df[r][c] : r \in 1..Len(df)}

\* np.linspace(lo, hi, num)
Linspace(lo, hi, num) ==
    LET step == IF num > 1 THEN (hi - lo) \div (num - 1) ELSE 0
    IN  [i \in 1..num |-> lo + (i - 1) * step]

\* np.where(points == x)[0][0]
WhereFirst(points, x) ==
    SetMin({i \in 1..Len(points) : points[i] = x})

\* lines 420-425: the rows are written into the layer one after the other
RECURSIVE FillRows(_, _, _, _, _, _)
FillRows(data, df, col, latpts, lonpts, r) ==
    IF r > Len(df) THEN data
    ELSE LET a == WhereFirst(latpts, df[r][2])
             b == WhereFirst(lonpts, df[r][3])
         IN  FillRows([data EXCEPT ![a][b] = df[r][col]],
                      df, col, latpts, lonpts, r + 1)

\* np.ma.masked_equal(data, -99.)
MaskedEqual(data, v) ==
    [a \in DOMAIN data |-> [b \in DOMAIN data[a] |-> data[a][b] = v]]

readascii(df) ==
    IF Len(df) < 2
    THEN [kind |-> "KeyError"]              \* df['V1'][1] has no row 1
    ELSE IF \E r \in 1..Len(df) : df[r][1] # df[2][1]
    THEN [kind |-> "UnboundLocalError"]     \* `time` was never assigned
    ELSE
    LET n == SetMax(ColumnOf(df, 2))
        s == SetMin(ColumnOf(df, 2))
        e == SetMax(ColumnOf(df, 3))
        w == SetMin(ColumnOf(df, 3))
        nlat == (n - s) + 1
        nlon == (e - w) + 1
        grid == [a \in 1..nlat |-> [b \in 1..nlon |-> FillValue]]
        latpts == Linspace(s, n, nlat)
        lonpts == Linspace(w, e, nlon)
        layer(col) == FillRows(grid, df, col, latpts, lonpts, 1)
    IN  [kind |-> "cubes",
         latitude |-> latpts,
         longitude |-> lonpts,
         data |-> [col \in VarCols |-> layer(col)],
         mask |-> [col \in VarCols |-> MaskedEqual(layer(col), FillValue)]]

(***************************************************************************)
(* SpecGrid: any table of up to MaxRows rows                               *)
(***************************************************************************)
MaxRows == 2
GridYears == {1980, 1981}
GridLats == -1..1
GridLons == 0..1
GridValues == {FillValue, 0, 7}

GridRows ==
    {<<y, la, lo>> \o v : y \in GridYears, la \in GridLats, lo \in GridLons,
                          v \in [1..(LastCol - 3) -> GridValues]}

GridTables == UNION {[1..n -> GridRows] : n \in 0..MaxRows}

InitGrid ==
    /\ gTable \in GridTables
    /\ gOut = [kind |-> "none"]
    /\ pc = "grid"
    /\ yrs = <<>> /\ procs = 1 /\ fs = {} /\ fs0 = {} /\ fresh = {}
    /\ chunks = <<>> /\ cidx = 0
    /\ tstate = <<>> /\ wrote = <<>> /\ ret = <<>> /\ yearlist = <<>>
    /\ catarg = <<>> /\ ncrcatIn = <<>> /\ catres = "none"
    /\ pathRet = NoPath /\ pathFrom = {} /\ outOfOrder = FALSE
    /\ kN = 0 /\ kDone = <<>>

Readascii ==
    /\ pc = "grid"
    /\ gOut.kind = "none"
    /\ gOut' = readascii(gTable)
    /\ UNCHANGED <<yrs, procs, fs, fresh, fs0, pc, chunks, cidx, tstate, wrote,
                   ret, yearlist, catarg, ncrcatIn, catres, pathRet, pathFrom,
                   kN, kDone, outOfOrder, gTable>>

NextGrid == Readascii

SpecGrid == InitGrid /\ [][NextGrid]_vars

SingleYear(df) == \A r1, r2 \in 1..Len(df) : df[r1][1] = df[r2][1]

DistinctCells(df) ==
    \A r1, r2 \in 1..Len(df) :
        r1 # r2 => <<df[r1][2], df[r1][3]>> # <<df[r2][2], df[r2][3]>>

\* C7 as stated: for a table with a single year and pairwise distinct
\* (lat, lon) pairs, whatever the values, readascii produces for every variable
\* column an array that holds each row's value, unmasked, at the cell of the
\* row's (lat, lon), and the missing marker at every cell no row addresses.
C7_GridExact ==
    (gOut.kind # "none" /\ Len(gTable) >= 1
        /\ SingleYear(gTable) /\ DistinctCells(gTable)) =>
        /\ gOut.kind = "cubes"
        /\ \A col \in VarCols :
            \A a \in 1..Len(gOut.latitude), b \in 1..Len(gOut.longitude) :
                LET hit == {r \in 1..Len(gTable) :
                               /\ gTable[r][2] = gOut.latitude[a]
                               /\ gTable[r][3] = gOut.longitude[b]}
                IN  IF hit = {}
                    THEN gOut.mask[col][a][b]
                    ELSE \A r \in hit : /\ ~gOut.mask[col][a][b]
                                        /\ gOut.data[col][a][b] = gTable[r][col]

(***************************************************************************)
(* The run: main, singleprocess_rcp / multiprocess_rcp, fullyr, catdata    *)
(***************************************************************************)
NProd == 10
NIrr == 12

MaxYears == 4
MaxProcs == 2
MaxPre == 1

YearPool == {1996 + i : i \in 1..MaxYears}

Range(s) == {s[i] : i \in 1..Len(s)}

\* the lists getyrs can return: the years of the input tree in any order
YearLists ==
    {s \in UNION {[1..n -> YearPool] : n \in 1..MaxYears} :
        \A i, j \in 1..Len(s) : i # j => s[i] # s[j]}

\* the (production, irrigation) combinations whose raw table cannot be read
BadSets == {{}, {<<1, 1>>}, {<<3, 7>>}, {<<NProd, NIrr>>}}

\* lines 449-457: readascii is called for every combination; the first
\* FileError leaves the loops
ReadLoop(bad) ==
    IF \E p \in 1..NProd, i \in 1..NIrr : <<p, i>> \in bad
    THEN "FileError" ELSE "ok"

\* line 462: return outnm
fullyrReturn(name, saved) == name

\* the characters of a path that differ between the paths of one run:
\* the year, then "." or "_<k>."
RECURSIVE Digits(_)
Digits(n) == IF n < 10 THEN <<48 + n>>
             ELSE Append(Digits(n \div 10), 48 + (n % 10))

PathStr(p) ==
    Digits(p[2]) \o (IF p[3] = 0 THEN <<>> ELSE <<95>> \o Digits(p[3])) \o <<46>>

\* Python's str comparison
RECURSIVE StrLess(_, _)
StrLess(a, b) ==
    IF b = <<>> THEN FALSE
    ELSE IF a = <<>> THEN TRUE
    ELSE IF Head(a) # Head(b) THEN Head(a) < Head(b)
    ELSE StrLess(Tail(a), Tail(b))

RECURSIVE InsertSorted(_, _)
InsertSorted(x, s) ==
    IF s = <<>> THEN <<x>>
    ELSE IF StrLess(PathStr(x), PathStr(Head(s))) THEN <<x>> \o s
    ELSE <<Head(s)>> \o InsertSorted(x, Tail(s))

\* A list that is left in the order the results arrived in.
SortListNone(s) == s

RECURSIVE SortList(_)
\* yearlist.sort()
SortList(s) ==
    IF s = <<>> THEN <<>>
    ELSE InsertSorted(s[Len(s)], SortList(SubSeq(s, 1, Len(s) - 1)))

\* catlist.insert(1, x)
Insert1(catlist, x) == <<Head(catlist), x>> \o Tail(catlist)

\* A concatenation that is given the whole list.
ncrcatInputAll(catlist) == catlist

\* line 533: input=catlist[1:]
ncrcatInput(catlist) == Tail(catlist)

\* A pool whose map never re-raises a worker's exception.
mapRaisesNever(st, chunk) == FALSE

\* pool.map re-raises the exception of a failed call
mapRaises(st, chunk) == \E i \in Range(chunk) : st[i] = "failed"

\* the scratch files a run can find in the output directory: any of
\* name, name_1 .. name_MaxPre of the first year listed
StaleSets(ys) == SUBSET {Pattern(outnm(ys[1]), k) : k \in 0..MaxPre}

Init ==
    /\ yrs \in YearLists
    /\ procs \in 1..MaxProcs
    /\ \E stale \in StaleSets(yrs), final \in SUBSET {newfile} :
           fs = stale \cup final
    /\ fs0 = fs
    /\ fresh = {}
    /\ pc = "main"
    /\ chunks = <<>>
    /\ cidx = 0
    /\ tstate = [i \in 1..Len(yrs) |-> "pending"]
    /\ wrote = [i \in 1..Len(yrs) |-> NoPath]
    /\ ret = [i \in 1..Len(yrs) |-> NoPath]
    /\ yearlist = <<>>
    /\ catarg = <<>>
    /\ ncrcatIn = <<>>
    /\ catres = "none"
    /\ outOfOrder = FALSE
    /\ pathRet = NoPath /\ pathFrom = {}
    /\ kN = 0 /\ kDone = <<>>
    /\ gTable = <<>> /\ gOut = [kind |-> "none"]

\* main, lines 551-557, and the start of the function it calls
Main ==
    /\ pc = "main"
    /\ IF procs > 1
       THEN /\ chunks' = list_of_chunks(Len(yrs), procs)
            /\ cidx' = 1
            /\ pc' = "pool"
       ELSE /\ pc' = "single"
            /\ UNCHANGED <<chunks, cidx>>
    /\ UNCHANGED <<yrs, procs, fs, fresh, fs0, tstate, wrote, ret, yearlist,
                   catarg, ncrcatIn, catres, outOfOrder, sideVars>>

\* outcube(cubelst.concatenate(), outnm); return outnm   (lines 459-462)
FullyrSave(i) ==
    LET name  == outnm(yrs[i])
        saved == outfile(fs, name)
    IN  /\ fs' = fs \cup {saved}
        /\ fresh' = fresh \cup {saved}
        /\ wrote' = [wrote EXCEPT ![i] = saved]
        /\ ret' = [ret EXCEPT ![i] = fullyrReturn(name, saved)]
        /\ tstate' = [tstate EXCEPT ![i] = "done"]

\* singleprocess_rcp, lines 505-506: one fullyr call, start to end
SingleFullyr ==
    /\ pc = "single"
    /\ Len(yearlist) < Len(yrs)
    /\ LET i == Len(yearlist) + 1
       IN  \E bad \in BadSets :
             IF ReadLoop(bad) = "ok"
             THEN /\ FullyrSave(i)
                  /\ yearlist' = Append(yearlist, ret'[i])
                  /\ pc' = pc
             ELSE /\ tstate' = [tstate EXCEPT ![i] = "failed"]
                  /\ pc' = "failed"
                  /\ UNCHANGED <<fs, fresh, wrote, ret, yearlist>>
    /\ UNCHANGED <<yrs, procs, fs0, chunks, cidx, catarg, ncrcatIn, catres,
                   outOfOrder, sideVars>>

\* the calls of the chunk pool.map is working on
CurChunk == IF cidx \in 1..Len(chunks) THEN chunks[cidx] ELSE <<>>

\* a pool worker runs one fullyr call, start to end (lines 437-462).  The
\* calls of a chunk finish in any order; calls of different years save to
\* different names, so they do not interfere.
WorkerFullyr(i) ==
    /\ pc = "pool"
    /\ i \in Range(CurChunk)
    /\ tstate[i] = "pending"
    /\ \E bad \in BadSets :
         IF ReadLoop(bad) = "ok"
         THEN /\ FullyrSave(i)
              /\ outOfOrder' = (outOfOrder \/ \E j \in Range(CurChunk) :
                                                  j < i /\ tstate[j] # "done")
         ELSE /\ tstate' = [tstate EXCEPT ![i] = "failed"]
              /\ UNCHANGED <<fs, fresh, wrote, ret, outOfOrder>>
    /\ UNCHANGED <<yrs, procs, fs0, pc, chunks, cidx, yearlist, catarg,
                   ncrcatIn, catres, sideVars>>

\* line 483: pool.map returns the results in the order of the chunk
PoolMapReturn ==
    /\ pc = "pool"
    /\ cidx \in 1..Len(chunks)
    /\ \A i \in Range(CurChunk) : tstate[i] \in {"done", "failed"}
    /\ ~mapRaises(tstate, CurChunk)
    /\ yearlist' = yearlist \o [n \in 1..Len(CurChunk) |-> ret[CurChunk[n]]]
    /\ cidx' = cidx + 1
    /\ UNCHANGED <<yrs, procs, fs, fresh, fs0, pc, chunks, tstate, wrote, ret,
                   catarg, ncrcatIn, catres, outOfOrder, sideVars>>

\* line 483: pool.map raises; leaving the with block terminates the workers
PoolMapRaise ==
    /\ pc = "pool"
    /\ mapRaises(tstate, CurChunk)
    /\ pc' = "failed"
    /\ UNCHANGED <<yrs, procs, fs, fresh, fs0, chunks, cidx, tstate, wrote,
                   ret, yearlist, catarg, ncrcatIn, catres, outOfOrder,
                   sideVars>>

\* catdata(catlist, outfil), lines 527-536.  ncks and ncrcat are external
\* commands: each succeeds only if its inputs exist, and may fail.  Neither
\* is told to spare an existing output, and catdata looks only for the
\* directory of newfile, not for newfile.
catdata(catlist) ==
    LET recdim   == RecdimName(catlist[1])
        catlist2 == Insert1(catlist, recdim)
        input    == ncrcatInput(catlist2)
    IN  /\ catarg' = catlist
        /\ \/ /\ catres' = "ncks_failed"
              /\ ncrcatIn' = <<>>
              /\ UNCHANGED <<fs, fresh>>
           \/ /\ catlist[1] \in fs
              /\ catres' = "ncrcat_failed"
              /\ ncrcatIn' = input
              /\ fs' = fs \cup {recdim}
              /\ fresh' = fresh \cup {recdim}
           \/ /\ catlist[1] \in fs
              /\ Range(input) \subseteq (fs \cup {recdim})
              /\ catres' = "ok"
              /\ ncrcatIn' = input
              /\ fs' = (fs \cup {recdim, newfile}) \ Range(catlist2)
              /\ fresh' = (fresh \cup {recdim, newfile}) \ Range(catlist2)
        /\ pc' = IF catres' = "ok" THEN "done" ELSE "failed"

\* singleprocess_rcp, lines 508-510
SingleMerge ==
    /\ pc = "single"
    /\ Len(yearlist) = Len(yrs)
    /\ yearlist' = SortList(yearlist)
    /\ catdata(yearlist')
    /\ UNCHANGED <<yrs, procs, fs0, chunks, cidx, tstate, wrote, ret,
                   outOfOrder, sideVars>>

\* multiprocess_rcp, lines 485-487
MultiMerge ==
    /\ pc = "pool"
    /\ cidx > Len(chunks)
    /\ yearlist' = SortList(yearlist)
    /\ catdata(yearlist')
    /\ UNCHANGED <<yrs, procs, fs0, chunks, cidx, tstate, wrote, ret,
                   outOfOrder, sideVars>>

Next ==
    \/ Main
    \/ SingleFullyr
    \/ \E i \in 1..Len(yrs) : WorkerFullyr(i)
    \/ PoolMapReturn
    \/ PoolMapRaise
    \/ SingleMerge
    \/ MultiMerge

Spec == Init /\ [][Next]_vars

Ascending(paths) ==
    \A i, j \in 1..Len(paths) : i < j => paths[i][2] < paths[j][2]

\* C1: in both the sequential and the pool path, whatever the order of the
\* years and the order in which the fullyr calls finish, the list given to
\* catdata is in ascending year order and holds exactly one per-year path for
\* each requested year.
C1_SortedYearlist ==
    catarg # <<>> =>
        /\ Len(catarg) = Len(yrs)
        /\ \A i \in 1..Len(catarg) : catarg[i][1] = "yr"
        /\ {catarg[i][2] : i \in 1..Len(catarg)} = Range(yrs)
        /\ Ascending(catarg)

\* a pool run of two chunks over years listed out of order, whose calls
\* finished out of order
C1_Witness ==
    /\ catarg # <<>>
    /\ procs > 1
    /\ Len(chunks) >= 2
    /\ outOfOrder
    /\ \E i \in 1..(Len(yrs) - 1) : yrs[i] > yrs[i + 1]

\* C2: ncrcat is given exactly n files for a list of n per-year paths: the
\* record-dimension copy of the first year's file, then the 2nd..n-th per-year
\* files, in ascending year order; the unmarked first file is not among them.
C2_NcrcatInput ==
    catres \in {"ok", "ncrcat_failed"} =>
        /\ Len(ncrcatIn) = Len(catarg)
        /\ ncrcatIn[1] = RecdimName(catarg[1])
        /\ \A i \in 2..Len(catarg) : ncrcatIn[i] = catarg[i]
        /\ catarg[1] \notin Range(ncrcatIn)
        /\ Ascending(ncrcatIn)

C2_Witness ==
    /\ catres = "ok"
    /\ Len(catarg) >= 3
    /\ Len(ncrcatIn) = Len(catarg)

\* C4 as stated: when a file exists at the final output path as catdata
\* runs, the merge fails and that file is left as it was.
C4_NoOverwrite ==
    (catarg # <<>> /\ newfile \in fs0) =>
        /\ catres # "ok"
        /\ newfile \in fs
        /\ newfile \notin fresh

AnyFailed == \E i \in 1..Len(tstate) : tstate[i] = "failed"

\* C5: when readascii raises for a combination of some year, fullyr ends
\* before outcube (it saves and returns nothing for that year), the run does
\* not end in success, catdata is never called, no final file is made, and no
\* per-year file of any year is deleted or marked for merging.
C5_FailureAborts ==
    /\ \A i \in 1..Len(tstate) :
          tstate[i] = "failed" =>
              /\ wrote[i] = NoPath
              /\ ret[i] = NoPath
              /\ \A p \in fs : (p[1] = "yr" /\ p[2] = yrs[i]) =>
                                   (p \in fs0 /\ p \notin fresh)
    /\ AnyFailed =>
          /\ pc \in {"pool", "failed"}
          /\ catarg = <<>> /\ catres = "none" /\ ncrcatIn = <<>>
          /\ (newfile \in fs <=> newfile \in fs0)
          /\ newfile \notin fresh
          /\ fs0 \subseteq fs
          /\ \A j \in 1..Len(wrote) :
                wrote[j] # NoPath => (wrote[j] \in fs /\ wrote[j] \in fresh)
          /\ \A p \in fs : p[1] # "recdim"

\* a pool run that has failed on one year after saving another
C5_Witness ==
    /\ pc = "failed"
    /\ procs > 1
    /\ AnyFailed
    /\ \E j \in 1..Len(tstate) : tstate[j] = "done" /\ wrote[j] \in fs

\* C6 as stated: after a run whose concatenation succeeds, no per-year file
\* saved during the run and no record-dimension copy exists any more; of the
\* files the run wrote only the final series file remains.
C6_ScratchRemoved ==
    pc = "done" =>
        /\ \A i \in 1..Len(wrote) : wrote[i] \notin fs
        /\ \A p \in fs : p[1] # "recdim"
        /\ fresh = {newfile}

\* C10 as stated: the path a fullyr call returns is the path outcube saved to
\* in that call, so every file catdata merges was written by this run.
C10_ReturnsSavedPath ==
    /\ \A i \in 1..Len(tstate) : tstate[i] = "done" => ret[i] = wrote[i]
    /\ \A i \in 1..Len(catarg) : catarg[i] \notin fs0

====
